---------------------------- MODULE Spec2Model ----------------------------
(***************************************************************************)
(* Model of lightroom-chrome-sync: the two command line programs           *)
(*   lightroom_to_google.py        (entry "l2g": Drive and/or Photos)      *)
(*   lightroom_googledrive_sync.py (entry "gds": Drive only)               *)
(* One run of one program is a sequential process whose position is pc.    *)
(* Remote services, the token file and the clock are the environment.      *)
(*                                                                         *)
(* Text is modelled structurally where the code looks inside it: a URL and *)
(* a file name are sequences of symbols ("/" and ".jpg" are symbols), so   *)
(* str.split and str.endswith are computed, not assumed.                   *)
(***************************************************************************)
EXTENDS Naturals, Integers, Sequences, FiniteSets, TLC

VARIABLES
    entry,          \* which program runs: "l2g" or "gds"
    gallery_url,    \* --gallery_url, a sequence of symbols
    folder_id,      \* --folder_id (l2g) / id made by create_drive_folder (gds)
    album_name,     \* --album_name (l2g)
    pc,             \* position of the run
    error,          \* the error that ended the run, or the one printed
    download_url,   \* result of generate_download_url
    fetch,          \* how download_and_extract_zip ended
    workdir,        \* directory listing of extract_to (sequence of file names)
    dir_exists,     \* extract_to exists on disk
    token_json,     \* token.json: <<>> when absent, <<record>> when present
    expiredIds,     \* access tokens whose expiry lies in the past
    nextId,         \* next access token the authorization server issues
    drive_service,  \* <<>> or <<creds>>: credentials bound to the Drive client
    photos_service, \* <<>> or <<creds>>: credentials bound to the Photos client
    token,          \* <<>> or <<t>>: bearer token returned by get_google_token
    token_service,  \* <<>> or <<creds>>: credentials of the client that
                    \* get_google_token builds and drops
    granted,        \* authorization server: scopes granted to each access token
    other,          \* a concurrent run sharing token.json: its stage, its
                    \* creds, whether it has token.json open for writing
                    \* (truncated, nothing written yet), where it wrote
    albums,         \* the account's albums: a sequence of pages of albums
    page,           \* page of the listing held in `results`
    album_details,  \* <<>> or <<value>> assigned in main
    files,          \* the .jpg files of the running upload loop
    idx,            \* position of the running upload loop in files
    upload_token,   \* <<>> or <<t>>: upload token of the current Photos item
    calls,          \* history: number of calls issued, per kind of call
    drive_created,  \* history: file names created in Drive, in order
    photos_bytes,   \* history: bytes uploads issued, [file, status], in order
    photos_items,   \* history: batchCreate calls issued, in order
    list_error,     \* history: kind of error raised by an album list call
    created_album,  \* history: ids of the albums created by this run
    remote_failure  \* history: some remote call failed or answered non-200

inputs   == <<entry, gallery_url, folder_id, album_name>>
control  == <<pc, error>>
fetched  == <<download_url, fetch, workdir, dir_exists>>
credvars == <<token_json, expiredIds, nextId, drive_service, photos_service, token,
              token_service, granted>>
resolve  == <<albums, page, album_details, list_error, created_album>>
loopvars == <<files, idx, upload_token>>
history  == <<calls, drive_created, photos_bytes, photos_items, remote_failure>>
vars == <<inputs, control, fetched, credvars, resolve, loopvars, history, other>>

---------------------------------------------------------------------------
(* Bounds of the model *)

\* most files in the downloaded archive
MaxFiles == 2
\* most pages in the account's album listing
MaxPages == 2

---------------------------------------------------------------------------
(* Text *)

\* Python's None for an option that was not given
None == "<None>"

\* Python truthiness of an optional string: None and "" are falsy
Falsy(x) == x = None \/ x = ""

\* str.split("/"): the segments between the "/" symbols, at least one
RECURSIVE Split(_)
Split(s) ==
    IF s = <<>> THEN << <<>> >>
    ELSE LET rest == Split(Tail(s))
         IN  IF Head(s) = "/"
             THEN << <<>> >> \o rest
             ELSE << <<Head(s)>> \o rest[1] >> \o Tail(rest)

\* "/".join(segs)
RECURSIVE Join(_)
Join(segs) ==
    IF Len(segs) = 0 THEN <<>>
    ELSE IF Len(segs) = 1 THEN segs[1]
    ELSE segs[1] \o <<"/">> \o Join(Tail(segs))

\* parts[i] with Python's 0-based index
At(parts, i) == parts[i + 1]

\* the shape check of generate_download_url
ShapeOKBug(parts) ==
    /\ Len(parts) >= 7
    /\ At(parts, 2) = <<"lightroom.adobe.com">>
ShapeOK(parts) ==
    /\ Len(parts) >= 8
    /\ At(parts, 2) = <<"lightroom.adobe.com">>
    /\ At(parts, 3) = <<"gallery">>

\* the f-string of generate_download_url
FormatUrlBug(gallery_id, album_id) ==
    <<"https:", "/", "/", "dl.lightroom.adobe.com", "/", "spaces", "/">>
        \o album_id \o <<"/", "albums", "/">> \o gallery_id
        \o <<"?fullsize=true">>
FormatUrl(gallery_id, album_id) ==
    <<"https:", "/", "/", "dl.lightroom.adobe.com", "/", "spaces", "/">>
        \o gallery_id \o <<"/", "albums", "/">> \o album_id
        \o <<"?fullsize=true">>

\* generate_download_url: <<url>> when it returns, <<>> when it raises ValueError
generate_download_url(url) ==
    LET parts == Split(url)
    IN  IF ShapeOK(parts)
        THEN << FormatUrl(At(parts, 4), At(parts, 6)) >>
        ELSE <<>>

\* str.endswith(".jpg")
EndsWithJpg(f) == Len(f) >= 1 /\ f[Len(f)] = ".jpg"

\* [f for f in os.listdir(directory) if f.endswith(".jpg")]
JpgFiles(listing) == SelectSeq(listing, EndsWithJpg)

\* str.lower() on the album titles of the model
Lower(t) ==
    CASE t = "Vacation" -> "vacation"
      [] t = "VACATION" -> "vacation"
      [] t = "vacation" -> "vacation"
      [] t = "Vacations" -> "vacations"
      [] OTHER -> t

---------------------------------------------------------------------------
(* Inputs and environment *)

\* the success status the code compares with
HTTP_OK == 200

\* statuses a remote HTTP endpoint may answer with
Statuses == {200, 204, 404}

\* requests' Response.raise_for_status raises for 4xx and 5xx only
RaisesForStatus(s) == s >= 400

Host == <<"lightroom.adobe.com">>

\* gallery references, as lists of segments
ValidRefSegs ==
    { << <<"https:">>, <<>>, Host, <<"gallery">>, <<"g1">>, <<"albums">>, <<"a1">>,
         <<"assets">> >>,
      << <<"http:">>, <<>>, Host, <<"gallery">>, <<"g2">>, <<"zz">>, <<"a2">>, <<>>,
         <<"p", "x">> >> }
InvalidRefSegs ==
    { << <<"https:">>, <<>>, Host, <<"gallery">>, <<"g1">>, <<"albums">>, <<"a1">> >>,
      << <<"https:">>, <<>>, <<"evil.example">>, <<"gallery">>, <<"g1">>, <<"albums">>,
         <<"a1">>, <<"assets">> >>,
      << <<"https:">>, <<>>, Host, <<"shares">>, <<"g1">>, <<"albums">>, <<"a1">>,
         <<"assets">> >>,
      << Host, <<"gallery">>, <<"g1">>, <<"albums">>, <<"a1">>, <<"assets">>,
         <<"x">>, <<"y">> >>,
      << <<>> >> }
GalleryUrls == { Join(segs) : segs \in ValidRefSegs \cup InvalidRefSegs }

FolderIds == {None, "F1"}
AlbumNames == {None, "", "Vacation"}

\* file names an archive may hold
FileNames == { <<"a", ".jpg">>, <<"b", ".jpg">>, <<"notes", ".txt">> }

\* directory listings: sequences of distinct file names
Listings(n) ==
    UNION { { l \in [1..k -> FileNames] : \A i, j \in 1..k : i # j => l[i] # l[j] } :
            k \in 0..n }

\* what the "photos" directory of gds may hold from an earlier run
PriorListings == { <<>>, << <<"old", ".jpg">> >> }

\* extractall into a directory: files already listed keep their place
Extract(listing, archive) ==
    listing \o SelectSeq(archive, LAMBDA f : \A i \in 1..Len(listing) : listing[i] # f)

DriveScope == "https://www.googleapis.com/auth/drive"
PhotosScope == "https://www.googleapis.com/auth/photoslibrary"

\* `scopes` of get_google_service / setup_google_drive_api
RequiredScopes(e) == IF e = "l2g" THEN {DriveScope, PhotosScope} ELSE {DriveScope}

\* token.json and the clock before the run: <<file, expired tokens>>.
\* Token 0 stands for a record without an access token.
TokenStates ==
    { << <<>>, {} >> }
    \cup { << <<[token |-> 1, refresh_token |-> TRUE, scopes |-> s]>>, {} >> :
             s \in {{DriveScope}, {DriveScope, PhotosScope}} }
    \cup { << <<[token |-> 1, refresh_token |-> TRUE,
                 scopes |-> {DriveScope, PhotosScope}]>>, {1} >>,
           << <<[token |-> 1, refresh_token |-> FALSE,
                 scopes |-> {DriveScope, PhotosScope}]>>, {1} >>,
           << <<[token |-> 0, refresh_token |-> TRUE,
                 scopes |-> {DriveScope, PhotosScope}]>>, {} >> }

\* titles of the albums an account may hold
\* one page of the listing: the titles of its albums (ids are given by place)
Pages == { <<>>, <<"Vacations">>, <<"Vacations", "VACATION">> }

\* album listings of up to n pages, as far as a run can see them: the page
\* holding the album sought is the last one requested (lines 100-103)
AlbumListings(n) ==
    UNION { { w \in [1..k -> Pages] :
                \A i \in 1..(k - 1) : \A j \in 1..Len(w[i]) : w[i][j] # "VACATION" } :
            k \in 1..n }

\* id of the album at place i of page p
AlbumId(p, i) == 10 * p + i

\* id of an album the run creates
NewAlbumId == 99

CallKinds ==
    { "download", "load_token", "refresh", "authorize", "build", "folder_create",
      "drive_create", "list", "album_create", "upload_bytes", "batch_create" }

Inc(k) == [calls EXCEPT ![k] = @ + 1]

---------------------------------------------------------------------------
(* Initial state: the command line, token.json and the disk before the run *)

Init ==
    /\ entry \in {"l2g", "gds"}
    /\ gallery_url \in GalleryUrls
    /\ folder_id \in IF entry = "l2g" THEN FolderIds ELSE {None}
    /\ album_name \in IF entry = "l2g" THEN AlbumNames ELSE {None}
    /\ pc = "start"
    /\ error = "none"
    /\ download_url = <<>>
    /\ fetch = "none"
    /\ dir_exists \in IF entry = "l2g" THEN {FALSE} ELSE BOOLEAN
    /\ workdir \in IF dir_exists THEN PriorListings ELSE { <<>> }
    /\ \E ts \in TokenStates : token_json = ts[1] /\ expiredIds = ts[2]
    /\ nextId = 2
    /\ drive_service = <<>>
    /\ photos_service = <<>>
    /\ token = <<>>
    /\ token_service = <<>>
    /\ granted = IF token_json # <<>> /\ token_json[1].token # 0
                 THEN token_json[1].token :> token_json[1].scopes
                 ELSE <<>>
    /\ other = [stage |-> "idle", creds |-> <<>>, torn |-> FALSE, at |-> "none"]
    /\ albums = <<>>
    /\ page = 0
    /\ album_details = <<>>
    /\ list_error = "none"
    /\ created_album = {}
    /\ files = <<>>
    /\ idx = 0
    /\ upload_token = <<>>
    /\ calls = [k \in CallKinds |-> 0]
    /\ drive_created = <<>>
    /\ photos_bytes = <<>>
    /\ photos_items = <<>>
    /\ remote_failure = FALSE

---------------------------------------------------------------------------
(* The run *)

\* an exception leaves main: the `with tempfile.TemporaryDirectory()` block of
\* l2g deletes extract_to on the way out, the "photos" directory of gds stays
Raise(err) ==
    /\ pc' = "failed"
    /\ error' = err
    /\ dir_exists' = IF entry = "l2g" THEN FALSE ELSE dir_exists

\* the stage main goes to after the download (l2g) or after Drive (l2g)
AfterDownloadPhotosFirst ==
    IF entry = "gds" THEN "drive_svc"
    ELSE IF ~Falsy(album_name) THEN "photos_svc"
    ELSE IF ~Falsy(folder_id) THEN "drive_svc"
    ELSE "finish"
AfterDownload ==
    IF entry = "gds" THEN "drive_svc"
    ELSE IF ~Falsy(folder_id) THEN "drive_svc"
    ELSE IF ~Falsy(album_name) THEN "photos_svc"
    ELSE "finish"
AfterDrive ==
    IF entry = "l2g" /\ ~Falsy(album_name) THEN "photos_svc" ELSE "finish"

\* main goes on to stage `next`; past the last stage it prints "Done!" /
\* "Upload Complete" and returns, and the `with` block of l2g deletes extract_to
GoOn(next) ==
    /\ error' = error
    /\ IF next = "finish"
       THEN /\ pc' = "done"
            /\ dir_exists' = IF entry = "l2g" THEN FALSE ELSE dir_exists
       ELSE /\ pc' = next
            /\ dir_exists' = dir_exists

\* l2g main: `if not folder_id and not album_name`
NoDestinationIsNone(f, a) == f = None /\ a = None
NoDestination(f, a) == Falsy(f) /\ Falsy(a)

\* l2g main, lines 210-211
CheckDestination ==
    /\ entry = "l2g" /\ pc = "start"
    /\ IF NoDestination(folder_id, album_name)
       THEN /\ pc' = "failed"
            /\ error' = "NoDestinationSpecified"
       ELSE /\ pc' = "derive"
            /\ error' = error
    /\ UNCHANGED <<other, inputs, fetched, credvars, resolve, loopvars, history>>

\* gds main, lines 148-149: without token.json the setup guide is printed
\* (setup_google_drive_credentials only prints, reads stdin and may open a browser)
SetupGuide ==
    /\ entry = "gds" /\ pc = "start"
    /\ pc' = "derive"
    /\ UNCHANGED <<other, inputs, error, fetched, credvars, resolve, loopvars, history>>

\* main of both programs: generate_download_url in try/except ValueError;
\* l2g then enters the `with tempfile.TemporaryDirectory()` block
Derive ==
    /\ pc = "derive"
    /\ LET r == generate_download_url(gallery_url)
       IN  IF r = <<>>
           THEN /\ pc' = "returned"
                /\ error' = "InvalidReference"
                /\ UNCHANGED <<download_url, dir_exists>>
           ELSE /\ pc' = "download"
                /\ error' = error
                /\ download_url' = r[1]
                /\ dir_exists' = IF entry = "l2g" THEN TRUE ELSE dir_exists
    /\ UNCHANGED <<other, inputs, fetch, workdir, credvars, resolve, loopvars, history>>

\* l2g download_and_extract_zip, called from main line 221
\*   out = "exception": requests.get raises (timeout, connection error); the
\*                      `except RequestException` prints it and returns
\*   out = "status":    a response whose status is st
\*   zip: the body is a readable ZIP archive holding `archive`
DownloadL2G ==
    /\ entry = "l2g" /\ pc = "download"
    /\ calls' = Inc("download")
    /\ \E out \in {"exception", "status"}, st \in Statuses, zip \in BOOLEAN,
          archive \in Listings(MaxFiles) :
        \/ /\ out = "exception"
           /\ fetch' = "request_exception"
           /\ remote_failure' = TRUE
           /\ workdir' = workdir
           /\ GoOn(AfterDownload)
        \/ /\ out = "status" /\ st # HTTP_OK
           /\ fetch' = "bad_status"
           /\ remote_failure' = TRUE
           /\ workdir' = workdir
           /\ Raise("AssertionError")
        \/ /\ out = "status" /\ st = HTTP_OK /\ ~zip
           /\ fetch' = "bad_zip"
           /\ remote_failure' = TRUE
           /\ workdir' = workdir
           /\ Raise("BadZipFile")
        \/ /\ out = "status" /\ st = HTTP_OK /\ zip
           /\ fetch' = "ok"
           /\ remote_failure' = remote_failure
           /\ workdir' = Extract(workdir, archive)
           /\ GoOn(AfterDownload)
    /\ UNCHANGED <<other, inputs, download_url, credvars, resolve, loopvars,
                   drive_created, photos_bytes, photos_items>>

\* gds download_and_extract_zip, called from main line 158: no try, and the
\* status is not looked at: any response whose body is a ZIP archive is extracted
DownloadGDS ==
    /\ entry = "gds" /\ pc = "download"
    /\ calls' = Inc("download")
    /\ \E out \in {"exception", "status"}, st \in Statuses, zip \in BOOLEAN,
          archive \in Listings(MaxFiles) :
        \/ /\ out = "exception"
           /\ fetch' = "request_exception"
           /\ remote_failure' = TRUE
           /\ workdir' = workdir
           /\ Raise("RequestException")
        \/ /\ out = "status" /\ ~zip
           /\ fetch' = "bad_zip"
           /\ remote_failure' = TRUE
           /\ workdir' = workdir
           /\ Raise("BadZipFile")
        \/ /\ out = "status" /\ zip
           /\ fetch' = IF st = HTTP_OK THEN "ok" ELSE "bad_status"
           /\ remote_failure' = (remote_failure \/ st # HTTP_OK)
           /\ workdir' = Extract(workdir, archive)
           /\ dir_exists' = TRUE
           /\ pc' = "drive_svc" /\ error' = error
    /\ UNCHANGED <<other, inputs, download_url, credvars, resolve, loopvars,
                   drive_created, photos_bytes, photos_items>>

---------------------------------------------------------------------------
(* Credential Manager: get_google_service / setup_google_drive_api *)

\* Credentials.from_authorized_user_file(file, scopes): the scopes argument
\* replaces the scopes of the record
FromAuthorizedUserFile(rec, scopes) ==
    [token |-> rec.token, refresh_token |-> rec.refresh_token, scopes |-> scopes]

\* creds.to_json()
ToJson(c) == [token |-> c.token, refresh_token |-> c.refresh_token, scopes |-> c.scopes]

\* the access tokens past their expiry when the clock is read; `lapsed`: the
\* expiry of the token held in token.json has passed since the last look
ExpiredNow(lapsed) ==
    expiredIds \cup
    (IF lapsed /\ token_json # <<>> /\ token_json[1].token # 0
     THEN {token_json[1].token} ELSE {})

\* creds.valid and creds.expired
Valid(c, lapsed) == c.token # 0 /\ c.token \notin ExpiredNow(lapsed)
Expired(c, lapsed) == c.token \in ExpiredNow(lapsed)

\* `creds` after lines 40-43: <<>> for None
Loaded(scopes) ==
    IF token_json = <<>> THEN <<>>
    ELSE << FromAuthorizedUserFile(token_json[1], scopes) >>

\* which branch of lines 45-50 runs
AuthKindNoValidCheck(scopes, lapsed) ==
    LET l == Loaded(scopes)
    IN  IF l # <<>> /\ l[1].token # 0 /\ l[1].refresh_token THEN "refresh"
        ELSE "authorize"
AuthKindNoRefreshTokenCheck(scopes, lapsed) ==
    LET l == Loaded(scopes)
    IN  IF l # <<>> /\ Valid(l[1], lapsed) THEN "none"
        ELSE IF l # <<>> /\ Expired(l[1], lapsed) THEN "refresh"
        ELSE "authorize"
AuthKind(scopes, lapsed) ==
    LET l == Loaded(scopes)
    IN  IF l # <<>> /\ Valid(l[1], lapsed) THEN "none"
        ELSE IF l # <<>> /\ Expired(l[1], lapsed) /\ l[1].refresh_token THEN "refresh"
        ELSE "authorize"

\* `creds` after lines 45-50 when nothing raised
Acquired(scopes, lapsed) ==
    LET l == Loaded(scopes)
        kind == AuthKind(scopes, lapsed)
    IN  IF kind = "none" THEN l[1]
        ELSE IF kind = "refresh" THEN [l[1] EXCEPT !.token = nextId]
        ELSE [token |-> nextId, refresh_token |-> TRUE, scopes |-> scopes]

\* the scopes the authorization server grants to a token it issues: a refresh
\* keeps the grant of the refreshed token, the interactive flow grants the
\* scopes it was started with
Grant(kind, old, scopes) == IF kind = "refresh" THEN granted[old] ELSE scopes

\* token.json after lines 52-53
PersistedOnlyAfterFlow(kind, c) ==
    IF kind = "authorize" THEN << ToJson(c) >> ELSE token_json
Persisted(kind, c) == << ToJson(c) >>

\* One call of get_google_service (l2g) / setup_google_drive_api (gds).
\*   lapsed:  the token in token.json has expired since the last look
\*   authOk:  creds.refresh / flow.run_local_server did not raise
\*   buildOk: build(...) did not raise (l2g fetches the discovery document)
\* site: the variable the client is assigned to (token_service: the client
\* get_google_token drops).
GetService(next, site, lapsed, authOk, buildOk) ==
    LET scopes == RequiredScopes(entry)
        kind == AuthKind(scopes, lapsed)
        c == Acquired(scopes, lapsed)
    IN  /\ ~other.torn
        /\ (kind = "none" => authOk)
        /\ expiredIds' = ExpiredNow(lapsed)
        /\ (entry = "gds" => buildOk)
        /\ calls' = [calls EXCEPT
                !["load_token"] = @ + (IF token_json = <<>> THEN 0 ELSE 1),
                !["refresh"] = @ + (IF kind = "refresh" THEN 1 ELSE 0),
                !["authorize"] = @ + (IF kind = "authorize" THEN 1 ELSE 0),
                !["build"] = @ + (IF authOk THEN 1 ELSE 0)]
        /\ IF ~authOk
           THEN /\ Raise(IF kind = "refresh" THEN "RefreshError" ELSE "AuthorizationDenied")
                /\ remote_failure' = TRUE
                /\ UNCHANGED <<token_json, nextId, granted, drive_service,
                               photos_service, token_service>>
           ELSE /\ token_json' = Persisted(kind, c)
                /\ nextId' = IF kind = "none" THEN nextId ELSE nextId + 1
                /\ granted' =
                     IF kind = "none" THEN granted
                     ELSE granted @@
                          (nextId :> Grant(kind, Loaded(scopes)[1].token, scopes))
                /\ IF buildOk
                   THEN /\ drive_service' =
                            IF site = "drive_service" THEN <<c>> ELSE drive_service
                        /\ photos_service' =
                            IF site = "photos_service" THEN <<c>> ELSE photos_service
                        /\ token_service' =
                            IF site = "token_service" THEN <<c>> ELSE token_service
                        /\ GoOn(next)
                        /\ remote_failure' = remote_failure
                   ELSE /\ Raise("BuildError")
                        /\ remote_failure' = TRUE
                        /\ UNCHANGED <<drive_service, photos_service, token_service>>
        /\ UNCHANGED <<other, inputs, download_url, fetch, workdir, token, resolve,
                       loopvars, drive_created, photos_bytes, photos_items>>

\* l2g main line 226 / gds main line 160
GetDriveService ==
    /\ pc = "drive_svc"
    /\ \E lapsed, authOk, buildOk \in BOOLEAN :
        GetService(IF entry = "gds" THEN "folder_create" ELSE "drive_files",
                   "drive_service", lapsed, authOk, buildOk)

\* l2g main line 231
GetPhotosService ==
    /\ pc = "photos_svc"
    /\ \E lapsed, authOk, buildOk \in BOOLEAN :
        GetService("token_svc", "photos_service", lapsed, authOk, buildOk)

\* l2g get_google_token line 75: the client it builds is dropped
GetTokenService ==
    /\ pc = "token_svc"
    /\ \E lapsed, authOk, buildOk \in BOOLEAN :
        GetService("token_read", "token_service", lapsed, authOk, buildOk)

\* line 77: the "token" member of the decoded record
TokenFieldMissing(rec) == 0
ReadBack(rec) == rec.token

\* l2g get_google_token lines 76-77: json.load(token_file)["token"]
ReadToken ==
    /\ pc = "token_read"
    /\ ~other.torn
    /\ token' = << ReadBack(token_json[1]) >>
    /\ pc' = "list"
    /\ UNCHANGED <<other, inputs, error, fetched, token_json, expiredIds, nextId,
                   drive_service, photos_service, token_service, granted, resolve,
                   loopvars, history>>

---------------------------------------------------------------------------
(* Drive: create_drive_folder (gds) and upload_files_to_drive *)

\* gds create_drive_folder, called from main line 161
CreateDriveFolder ==
    /\ entry = "gds" /\ pc = "folder_create"
    /\ calls' = Inc("folder_create")
    /\ \E ok \in BOOLEAN :
        IF ok
        THEN /\ folder_id' = "NEW"
             /\ remote_failure' = remote_failure
             /\ GoOn("drive_files")
        ELSE /\ folder_id' = folder_id
             /\ remote_failure' = TRUE
             /\ Raise("HttpError")
    /\ UNCHANGED <<other, entry, gallery_url, album_name, download_url, fetch, workdir,
                   credvars, resolve, loopvars, drive_created, photos_bytes,
                   photos_items>>

\* upload_files_to_drive: os.listdir and the .jpg filter (l2g lines 62-63;
\* gds filters inside the loop, lines 102-103, which selects the same files)
DriveFiles ==
    /\ pc = "drive_files"
    /\ files' = JpgFiles(workdir)
    /\ idx' = 1
    /\ pc' = "drive_upload"
    /\ UNCHANGED <<other, inputs, error, fetched, credvars, resolve, upload_token, history>>

\* upload_files_to_drive: one pass of the loop, files().create(...).execute()
DriveUpload ==
    /\ pc = "drive_upload" /\ idx <= Len(files)
    /\ calls' = Inc("drive_create")
    /\ \E ok \in BOOLEAN :
        IF ok
        THEN /\ drive_created' = Append(drive_created, files[idx])
             /\ idx' = idx + 1
             /\ remote_failure' = remote_failure
             /\ UNCHANGED <<control, dir_exists>>
        ELSE /\ remote_failure' = TRUE
             /\ Raise("HttpError")
             /\ UNCHANGED <<drive_created, idx>>
    /\ UNCHANGED <<other, inputs, download_url, fetch, workdir, credvars, resolve, files,
                   upload_token, photos_bytes, photos_items>>

\* upload_files_to_drive returns: main goes on (l2g line 229, gds line 165)
DriveUploadEnd ==
    /\ pc = "drive_upload" /\ idx > Len(files)
    /\ GoOn(AfterDrive)
    /\ UNCHANGED <<other, inputs, download_url, fetch, workdir, credvars, resolve,
                   loopvars, history>>

---------------------------------------------------------------------------
(* Photos album: find_album_by_name and the creation in main *)

\* index of the first album of page p whose title matches, 0 when none
FirstMatch(p, name) ==
    LET hits == { i \in 1..Len(p) : Lower(p[i]) = Lower(name) }
    IN  IF hits = {} THEN 0 ELSE CHOOSE i \in hits : \A j \in hits : i <= j

\* `results.get("nextPageToken")` of page n of the listing is truthy
HasNextPage(listing, n) == n < Len(listing)

\* main line 235: the exceptions `except ValueError` takes for "not found"
TakenForNotFound(kind) == kind = "ValueError"

\* find_album_by_name: one albums().list(...).execute() and the scan of its page.
\* The first call meets the account's albums. A call may raise
\*   "HttpError":  an API error that is not a ValueError
\*   "ValueError": an error of a ValueError class (e.g. a response that cannot
\*                 be decoded); `except Exception` prints and re-raises both
ListAlbums ==
    /\ pc = "list"
    /\ calls' = Inc("list")
    /\ \E world \in (IF page = 0 THEN AlbumListings(MaxPages) ELSE {albums}),
          out \in {"ok", "HttpError", "ValueError"} :
        /\ albums' = world
        /\ IF out = "ok"
           THEN LET n == page + 1
                    results == albums'[n]
                    m == FirstMatch(results, album_name)
                IN  /\ page' = n
                    /\ list_error' = list_error
                    /\ remote_failure' = remote_failure
                    /\ IF m # 0
                       THEN /\ album_details' =
                                << [kind |-> "dict", id |-> AlbumId(n, m)] >>
                            /\ pc' = "photos_files"
                       ELSE /\ album_details' = album_details
                            /\ pc' = IF HasNextPage(albums', n)
                                     THEN "list" ELSE "create_album"
                    /\ UNCHANGED <<error, dir_exists>>
           ELSE /\ list_error' = out
                /\ remote_failure' = TRUE
                /\ UNCHANGED <<page, album_details>>
                /\ IF TakenForNotFound(out)
                   THEN pc' = "create_album" /\ UNCHANGED <<error, dir_exists>>
                   ELSE Raise(out)
    /\ UNCHANGED <<other, inputs, download_url, fetch, workdir, credvars, created_album,
                   loopvars, drive_created, photos_bytes, photos_items>>

\* main lines 236-239: albums().create(...).execute(); album_details = response["id"]
CreateAlbum ==
    /\ pc = "create_album"
    /\ calls' = Inc("album_create")
    /\ \E ok \in BOOLEAN :
        IF ok
        THEN /\ created_album' = created_album \cup {NewAlbumId}
             /\ album_details' = << [kind |-> "str", id |-> NewAlbumId] >>
             /\ remote_failure' = remote_failure
             /\ pc' = "photos_files"
             /\ UNCHANGED <<error, dir_exists>>
        ELSE /\ remote_failure' = TRUE
             /\ Raise("HttpError")
             /\ UNCHANGED <<created_album, album_details>>
    /\ UNCHANGED <<other, inputs, download_url, fetch, workdir, credvars, albums, page,
                   list_error, loopvars, drive_created, photos_bytes, photos_items>>

---------------------------------------------------------------------------
(* Photos: upload_files_to_google_photos *)

\* lines 129-130: os.listdir and the .jpg filter
PhotosFiles ==
    /\ pc = "photos_files"
    /\ files' = JpgFiles(workdir)
    /\ idx' = 1
    /\ upload_token' = <<>>
    /\ pc' = "photos_bytes"
    /\ UNCHANGED <<other, inputs, error, fetched, credvars, resolve, history>>

\* line 143: the statuses after which the loop goes on to batchCreate
BytesAccepted(st) == ~RaisesForStatus(st)

\* line 151: album_details["id"] needs a mapping; on a str it raises TypeError
HasIdKey(d) == d.kind = "dict"

\* lines 133-152: POST of the bytes, raise_for_status, the upload token, and
\* the body of the batchCreate call
UploadBytes ==
    /\ pc = "photos_bytes" /\ idx <= Len(files)
    /\ calls' = Inc("upload_bytes")
    /\ \E out \in {"exception", "status"}, st \in Statuses :
        \/ /\ out = "exception"
           /\ photos_bytes' = Append(photos_bytes, [file |-> files[idx], status |-> 0])
           /\ remote_failure' = TRUE
           /\ upload_token' = upload_token
           /\ Raise("RequestException")
        \/ /\ out = "status"
           /\ photos_bytes' = Append(photos_bytes, [file |-> files[idx], status |-> st])
           /\ remote_failure' = (remote_failure \/ st # HTTP_OK)
           /\ IF ~BytesAccepted(st)
              THEN /\ upload_token' = upload_token
                   /\ Raise("HTTPError")
              ELSE /\ upload_token' = << files[idx] >>
                   /\ IF HasIdKey(album_details[1])
                      THEN pc' = "photos_batch" /\ UNCHANGED <<error, dir_exists>>
                      ELSE Raise("TypeError")
    /\ UNCHANGED <<other, inputs, download_url, fetch, workdir, credvars, resolve, files,
                   idx, drive_created, photos_items>>

\* line 151: the "albumId" of the batchCreate body
BatchAlbumIdPerItem(d) == d.id + Len(photos_items)
BatchAlbumId(d) == d.id

\* lines 154-161: POST mediaItems:batchCreate and the check of its status
BatchCreate ==
    /\ pc = "photos_batch"
    /\ calls' = Inc("batch_create")
    /\ \E out \in {"exception", "status"}, st \in Statuses :
        \/ /\ out = "exception"
           /\ photos_items' = Append(photos_items,
                 [file |-> files[idx], albumId |-> BatchAlbumId(album_details[1]),
                  bearer |-> token[1], status |-> 0])
           /\ remote_failure' = TRUE
           /\ idx' = idx
           /\ Raise("RequestException")
        \/ /\ out = "status"
           /\ photos_items' = Append(photos_items,
                 [file |-> files[idx], albumId |-> BatchAlbumId(album_details[1]),
                  bearer |-> token[1], status |-> st])
           /\ remote_failure' = (remote_failure \/ st # HTTP_OK)
           /\ IF st # HTTP_OK
              THEN idx' = idx /\ Raise("HTTPError")
              ELSE /\ idx' = idx + 1
                   /\ pc' = "photos_bytes"
                   /\ UNCHANGED <<error, dir_exists>>
    /\ UNCHANGED <<other, inputs, download_url, fetch, workdir, credvars, resolve, files,
                   upload_token, drive_created, photos_bytes>>

\* upload_files_to_google_photos returns: main prints "Done!" (line 243)
PhotosUploadEnd ==
    /\ pc = "photos_bytes" /\ idx > Len(files)
    /\ GoOn("finish")
    /\ UNCHANGED <<other, inputs, download_url, fetch, workdir, credvars, resolve,
                   loopvars, history>>

---------------------------------------------------------------------------
(* Specification *)

Next ==
    \/ CheckDestination
    \/ SetupGuide
    \/ Derive
    \/ DownloadL2G
    \/ DownloadGDS
    \/ GetDriveService
    \/ GetPhotosService
    \/ GetTokenService
    \/ ReadToken
    \/ CreateDriveFolder
    \/ DriveFiles
    \/ DriveUpload
    \/ DriveUploadEnd
    \/ ListAlbums
    \/ CreateAlbum
    \/ PhotosFiles
    \/ UploadBytes
    \/ BatchCreate
    \/ PhotosUploadEnd

Spec == Init /\ [][Next]_vars

---------------------------------------------------------------------------
(* Two runs of lightroom_to_google sharing token.json *)

\* This run has not yet read token.json for the last time (line 77). The
\* steps of the other run are followed up to that point: what it does to the
\* file later is never seen by this run.
BeforeReadBack == pc \in {"start", "derive", "download", "photos_svc", "token_svc",
                           "token_read"}

\* The other run executes get_google_service lines 42-50: it loads token.json,
\* refreshes or authorizes when needed, and holds the resulting creds.
OtherAcquire ==
    /\ BeforeReadBack
    /\ other.stage = "idle" /\ ~other.torn
    /\ \E lapsed \in BOOLEAN :
        LET scopes == {DriveScope, PhotosScope}
            kind == AuthKind(scopes, lapsed)
            c == Acquired(scopes, lapsed)
        IN  /\ expiredIds' = ExpiredNow(lapsed)
            /\ nextId' = IF kind = "none" THEN nextId ELSE nextId + 1
            /\ granted' =
                 IF kind = "none" THEN granted
                 ELSE granted @@
                      (nextId :> Grant(kind, Loaded(scopes)[1].token, scopes))
            /\ other' = [other EXCEPT !.stage = "loaded", !.creds = <<c>>]
    /\ UNCHANGED <<inputs, control, fetched, token_json, drive_service,
                   photos_service, token, token_service, resolve, loopvars, history>>

\* The other run executes line 52: open("token.json", "w") truncates the file
OtherOpen ==
    /\ BeforeReadBack
    /\ other.stage = "loaded"
    /\ other' = [other EXCEPT !.stage = "opened", !.torn = TRUE]
    /\ UNCHANGED <<inputs, control, fetched, credvars, resolve, loopvars, history>>

\* The other run executes line 53 and leaves the with block: its creds are in
\* token.json
OtherWrite ==
    /\ BeforeReadBack
    /\ other.stage = "opened"
    /\ token_json' = << ToJson(other.creds[1]) >>
    /\ other' = [other EXCEPT !.stage = "written", !.torn = FALSE, !.at = pc]
    /\ UNCHANGED <<inputs, control, fetched, expiredIds, nextId, drive_service,
                   photos_service, token, token_service, granted, resolve,
                   loopvars, history>>

\* This run decodes token.json (line 43 or line 77) while the other run has
\* it truncated: json raises JSONDecodeError, which nothing catches
TornLoad ==
    /\ pc \in {"photos_svc", "token_svc", "token_read"}
    /\ other.torn
    /\ Raise("JSONDecodeError")
    /\ calls' = IF pc = "token_read" THEN calls ELSE Inc("load_token")
    /\ UNCHANGED <<other, inputs, download_url, fetch, workdir, credvars, resolve,
                   loopvars, drive_created, photos_bytes, photos_items, list_error,
                   created_album, remote_failure>>

\* the run under observation: album only, the reference of the example
InitRace ==
    /\ Init
    /\ entry = "l2g"
    /\ gallery_url = Join(<< <<"https:">>, <<>>, Host, <<"gallery">>, <<"g1">>,
                             <<"albums">>, <<"a1">>, <<"assets">> >>)
    /\ folder_id = None
    /\ album_name = "Vacation"

NextRace ==
    \/ CheckDestination
    \/ Derive
    \/ DownloadL2G
    \/ GetPhotosService
    \/ GetTokenService
    \/ ReadToken
    \/ TornLoad
    \/ ListAlbums
    \/ CreateAlbum
    \/ PhotosFiles
    \/ UploadBytes
    \/ BatchCreate
    \/ PhotosUploadEnd
    \/ OtherAcquire
    \/ OtherOpen
    \/ OtherWrite

SpecRace == InitRace /\ [][NextRace]_vars

---------------------------------------------------------------------------
(* Claims *)

\* no call of any kind has been issued: no download, no credential load,
\* refresh or authorization, no client built, no listing, creation or upload
NoCalls == \A k \in CallKinds : calls[k] = 0

\* C1: in l2g, when neither a Drive folder id nor a Photos album name is given
\* (None or the empty string), the run ends with the no-destination error
\* before anything else happens: no download, no credential load, refresh or
\* authorization, no album listing and no upload is ever issued.
C1_NoDestinationFailsFast ==
    (entry = "l2g" /\ folder_id \in {None, ""} /\ album_name \in {None, ""}
        /\ pc # "start")
    => (pc = "failed" /\ error = "NoDestinationSpecified" /\ NoCalls
        /\ download_url = <<>> /\ ~dir_exists)

C1_Witness ==
    pc = "failed" /\ error = "NoDestinationSpecified" /\ album_name = ""

\* the shape check as the specification words it, on the segments of a reference
FailsShape(parts) ==
    \/ Len(parts) < 8
    \/ parts[3] # <<"lightroom.adobe.com">>
    \/ parts[4] # <<"gallery">>

\* generate_download_url has run in this run
DeriveRan == pc \notin {"start", "derive"} /\ error # "NoDestinationSpecified"

\* C2: for every gallery reference failing the shape check (fewer than 8
\* segments, wrong host, or no "gallery" segment) generate_download_url raises
\* the invalid-reference error and the run returns without any network call:
\* no download, no credential acquisition, no resolution, no upload.
C2_InvalidReferenceNoNetwork ==
    (DeriveRan /\ FailsShape(Split(gallery_url)))
    => (pc = "returned" /\ error = "InvalidReference" /\ NoCalls
        /\ download_url = <<>>)

C2_Witness ==
    /\ pc = "returned" /\ error = "InvalidReference"
    /\ Len(Split(gallery_url)) >= 8
    /\ Split(gallery_url)[4] = <<"shares">>

\* C3: for every gallery reference passing the shape check the endpoint is
\* exactly https://dl.lightroom.adobe.com/spaces/<G>/albums/<A>?fullsize=true
\* with G the segment at index 4 and A the segment at index 6 (0-based) of the
\* reference split on "/"; nothing else of the reference enters the result.
C3_EndpointFromFixedSegments ==
    LET parts == Split(gallery_url)
    IN  (DeriveRan /\ ~FailsShape(parts))
        => download_url =
             <<"https:", "/", "/", "dl.lightroom.adobe.com", "/", "spaces", "/">>
             \o parts[5] \o <<"/", "albums", "/">> \o parts[7]
             \o <<"?fullsize=true">>

C3_Witness ==
    /\ pc = "download"
    /\ Len(Split(gallery_url)) = 9
    /\ download_url =
         <<"https:", "/", "/", "dl.lightroom.adobe.com", "/", "spaces", "/",
           "g2", "/", "albums", "/", "a2", "?fullsize=true">>

\* a stage after the fetch has acted
LaterStageCalls == \E k \in CallKinds \ {"download"} : calls[k] > 0

\* C4: in l2g, if the archive is not retrieved (non-success status, or the
\* request itself fails) the run aborts: no credential acquisition, no
\* resolution, no upload follows and the run does not end in success.
C4_FetchFailureAborts ==
    (entry = "l2g" /\ fetch \in {"bad_status", "request_exception"})
    => (pc = "failed" /\ ~LaterStageCalls)

\* the .jpg files of the working directory, as the specification words eligibility
Eligible == SelectSeq(workdir, LAMBDA f : f[Len(f)] = ".jpg")

\* C5: when no album matches, a new album is created and then every eligible
\* file is uploaded (bytes upload and batchCreate) against the new album's id:
\* a run that created the album and met no remote failure ends in success
\* with one batchCreate per eligible file, each naming the new album.
C5_CreatedAlbumReceivesAllItems ==
    (created_album # {} /\ pc \in {"done", "failed"} /\ ~remote_failure)
    => /\ pc = "done"
       /\ Len(photos_items) = Len(Eligible)
       /\ \A i \in 1..Len(photos_items) :
            /\ photos_items[i].file = Eligible[i]
            /\ photos_items[i].albumId \in created_album

\* some album of the account has the requested title, ignoring case
MatchExists ==
    \E p \in 1..Len(albums) : \E i \in 1..Len(albums[p]) :
        Lower(albums[p][i]) = Lower(album_name)

\* C6: resolution never creates an album when an album of any page has the
\* requested title ignoring case; creation is reached only after every page
\* of the listing has been traversed without a match.
C6_NoDuplicateAlbum ==
    calls["album_create"] > 0 => (~MatchExists /\ page = Len(albums))

\* C7: if an album-list call fails, the run aborts: whatever the error, it is
\* not taken for "album not found", no album is created and no Photos upload
\* is attempted.
C7_ListErrorIsFatal ==
    list_error # "none"
    => (pc = "failed" /\ calls["album_create"] = 0 /\ calls["upload_bytes"] = 0
        /\ calls["batch_create"] = 0)

\* C8: for every item batchCreate is issued only after the bytes upload of
\* that item answered 200, and a status other than 200 on either phase makes
\* the item a failure: no batchCreate follows a non-200 bytes upload, and the
\* run does not carry on after a non-200 batchCreate.
C8_BothPhasesNeed200 ==
    /\ \A i \in 1..Len(photos_items) :
         /\ i <= Len(photos_bytes)
         /\ photos_bytes[i].file = photos_items[i].file
         /\ photos_bytes[i].status = 200
    /\ \A j \in 1..Len(photos_bytes) :
         photos_bytes[j].status # 200 => (pc = "failed" /\ j = Len(photos_bytes))
    /\ \A i \in 1..Len(photos_items) :
         photos_items[i].status # 200 => (pc = "failed" /\ i = Len(photos_items))

\* C9: one CredentialSet per run: the credentials bound to the Drive client,
\* those bound to the Photos client and the bearer token of get_google_token
\* all carry the same access token.
C9_OneCredentialSet ==
    LET inUse ==
            { drive_service[i].token : i \in 1..Len(drive_service) }
            \cup { photos_service[i].token : i \in 1..Len(photos_service) }
            \cup { token[i] : i \in 1..Len(token) }
    IN  Cardinality(inUse) <= 1

\* the record token.json holds is the serialized form of credentials c
RecordIs(file, c) ==
    /\ Len(file) = 1
    /\ file[1].token = c.token
    /\ file[1].refresh_token = c.refresh_token
    /\ file[1].scopes = c.scopes

\* C10: whenever get_google_service / setup_google_drive_api returns a client,
\* token.json holds exactly the credentials bound to it (also after a refresh
\* and after a re-issuance), and the token it holds has not expired; when the
\* refresh or the authorization fails, token.json is left as it was.
C10_RecordMatchesClient ==
    [][ /\ (pc = "drive_svc" /\ pc' \in {"drive_files", "folder_create"})
            => RecordIs(token_json', drive_service'[1])
        /\ (pc = "photos_svc" /\ pc' = "token_svc")
            => RecordIs(token_json', photos_service'[1])
        /\ (pc \in {"drive_svc", "photos_svc", "token_svc"} /\ pc' # "failed")
            => (Len(token_json') = 1 /\ token_json'[1].token # 0
                /\ token_json'[1].token \notin expiredIds')
        /\ (pc \in {"drive_svc", "photos_svc", "token_svc"}
                /\ error' \in {"RefreshError", "AuthorizationDenied"})
            => token_json' = token_json
      ]_vars

C10_Witness ==
    /\ pc = "token_svc"
    /\ calls["refresh"] = 1 /\ calls["authorize"] = 0
    /\ drive_service # <<>>
    /\ photos_service[1].token # drive_service[1].token
    /\ RecordIs(token_json, photos_service[1])

\* the credentials bound to the clients built so far in this run
BoundCreds ==
    { drive_service[i] : i \in 1..Len(drive_service) }
    \cup { photos_service[i] : i \in 1..Len(photos_service) }
    \cup { token_service[i] : i \in 1..Len(token_service) }

\* C11: the Credential Manager never returns a token whose granted scopes do
\* not cover the scopes the program requires (Drive and Photos for l2g, Drive
\* for gds): a stored token with too narrow a grant is refreshed or re-issued
\* so that every client is bound to a token granted all required scopes.
C11_GrantCoversRequiredScopes ==
    \A c \in BoundCreds :
        (IF entry = "l2g" THEN {DriveScope, PhotosScope} ELSE {DriveScope})
            \subseteq granted[c.token]

\* the run is at a call of get_google_service / setup_google_drive_api
AtServiceCall == pc \in {"drive_svc", "photos_svc", "token_svc"}

\* the credentials of the client the call at the current position returns
Returned(d, p, t) ==
    IF pc = "drive_svc" THEN d[1] ELSE IF pc = "photos_svc" THEN p[1] ELSE t[1]

\* C12: a call that reloads a persisted CredentialSet whose access token has
\* not expired runs neither the refresh nor the interactive flow, leaves the
\* record's token in place and returns a client bound to that same token.
C12_ReloadKeepsToken ==
    [][ (AtServiceCall /\ Len(token_json) = 1 /\ token_json[1].token # 0
            /\ token_json[1].token \notin expiredIds')
        => /\ calls'["refresh"] = calls["refresh"]
           /\ calls'["authorize"] = calls["authorize"]
           /\ Len(token_json') = 1
           /\ token_json'[1].token = token_json[1].token
           /\ pc' # "failed" =>
                Returned(drive_service', photos_service', token_service').token
                    = token_json[1].token
      ]_vars

C12_Witness ==
    /\ pc = "token_svc"
    /\ calls["load_token"] = 1 /\ calls["authorize"] = 1 /\ calls["refresh"] = 0
    /\ drive_service # <<>>
    /\ photos_service[1].token = drive_service[1].token
    /\ token_json[1].token = drive_service[1].token

\* C13: at a load that yields no valid credentials, an expired CredentialSet
\* with a refresh token is refreshed and the interactive flow is not run; in
\* every other invalid case (no record, no refresh token, no access token but
\* not expired) the interactive flow is run and no refresh is attempted.
C13_RefreshXorAuthorize ==
    [][ AtServiceCall =>
          LET present == Len(token_json) = 1
              expired == present /\ token_json[1].token \in expiredIds'
              invalid == ~present \/ token_json[1].token = 0 \/ expired
              refreshable == expired /\ token_json[1].refresh_token
          IN  /\ (invalid /\ refreshable) =>
                    /\ calls'["refresh"] = calls["refresh"] + 1
                    /\ calls'["authorize"] = calls["authorize"]
              /\ (invalid /\ ~refreshable) =>
                    /\ calls'["authorize"] = calls["authorize"] + 1
                    /\ calls'["refresh"] = calls["refresh"]
      ]_vars

C13_Witness ==
    /\ pc = "token_svc"
    /\ calls["authorize"] = 1 /\ calls["refresh"] = 1
    /\ calls["load_token"] = 1

\* the run has ended: by returning, by printing the success line, or by an error
Terminated == pc \in {"returned", "done", "failed"}

\* C14: for both entry points the extraction directory is deleted on every
\* exit path, so it does not exist once a run that downloaded has ended, and
\* no file left by an earlier run is ever uploaded from it.
C14_WorkdirDeletedOnExit ==
    /\ (Terminated /\ calls["download"] > 0) => ~dir_exists
    /\ \A i \in 1..Len(drive_created) : drive_created[i] \in FileNames

\* the targets main was asked for
DriveRequested == entry = "gds" \/ ~Falsy(folder_id)
PhotosRequested == entry = "l2g" /\ ~Falsy(album_name)

\* the files named by the upload calls made so far, in call order
BytesFiles == [i \in 1..Len(photos_bytes) |-> photos_bytes[i].file]
ItemFiles == [i \in 1..Len(photos_items) |-> photos_items[i].file]

IsPrefix(s, t) == Len(s) <= Len(t) /\ \A i \in 1..Len(s) : s[i] = t[i]

\* C15: in a run where no remote call fails, the upload calls of each target
\* name the eligible files of the working directory only, once each and in
\* listing order, and when the run has ended every requested target has
\* received every eligible file.
C15_EveryEligibleOncePerTarget ==
    ~remote_failure =>
        /\ IsPrefix(drive_created, Eligible)
        /\ IsPrefix(BytesFiles, Eligible)
        /\ IsPrefix(ItemFiles, Eligible)
        /\ (Terminated /\ fetch = "ok") =>
              /\ DriveRequested => drive_created = Eligible
              /\ PhotosRequested => (BytesFiles = Eligible /\ ItemFiles = Eligible)

\* the Photos upload of the k-th item failed: an exception or a status other
\* than 200 on the bytes upload or on batchCreate
PhotosItemFailed(k) ==
    \/ photos_bytes[k].status # HTTP_OK
    \/ k <= Len(photos_items) /\ photos_items[k].status # HTTP_OK

\* C16: abort on first failure in both loops: once the upload of the k-th
\* eligible file has failed the run is in failure, no call was made for a
\* later file and none was repeated, and the files before it stay uploaded.
C16_AbortOnFirstFailure ==
    /\ calls["drive_create"] > Len(drive_created) =>
          /\ pc = "failed"
          /\ calls["drive_create"] = Len(drive_created) + 1
    /\ \A k \in 1..Len(photos_bytes) :
          PhotosItemFailed(k) =>
              /\ pc = "failed"
              /\ Len(photos_bytes) = k
              /\ calls["upload_bytes"] = k
              /\ \A i \in 1..(k - 1) :
                    i <= Len(photos_items) /\ photos_items[i].status = HTTP_OK

\* C17: the album is resolved once, before the first Photos upload: at most
\* one album is created in a run, no listing or creation call is made and the
\* album handle does not change once an upload call has been made, and every
\* batchCreate of the run names the id of that one handle.
C17_AlbumResolvedOnce ==
    [][ /\ calls'["album_create"] <= 1
        /\ calls'["upload_bytes"] > 0 =>
              /\ album_details' # <<>>
              /\ calls'["list"] >= 1
        /\ calls["upload_bytes"] > 0 =>
              /\ calls'["list"] = calls["list"]
              /\ calls'["album_create"] = calls["album_create"]
              /\ album_details' = album_details
        /\ \A i \in 1..Len(photos_items') :
              photos_items'[i].albumId = album_details'[1].id
      ]_vars

C17_Witness ==
    /\ pc = "done"
    /\ calls["list"] = 2
    /\ Len(photos_items) = 2
    /\ photos_items[1].albumId = photos_items[2].albumId
    /\ photos_items[1].file # photos_items[2].file

\* the run has reached the Photos part of main (line 229 onwards) or has made
\* a call that belongs to it
PhotosStage ==
    \/ pc \in {"photos_svc", "token_svc", "token_read", "list", "create_album",
               "photos_files", "photos_bytes", "photos_batch"}
    \/ photos_service # <<>> \/ token_service # <<>> \/ token # <<>>
    \/ calls["list"] + calls["album_create"] > 0
    \/ calls["upload_bytes"] + calls["batch_create"] > 0

\* C18: with both a Drive folder and a Photos album requested, the Photos
\* part (credentials, album resolution, uploads) starts only after the Drive
\* part is complete: the Drive client was obtained and every eligible file
\* was created in Drive by exactly one call. So a failed Drive credential
\* acquisition or Drive upload is followed by no Photos activity.
C18_DriveBeforePhotos ==
    (entry = "l2g" /\ ~Falsy(folder_id) /\ ~Falsy(album_name) /\ PhotosStage)
    => /\ drive_service # <<>>
       /\ drive_created = Eligible
       /\ calls["drive_create"] = Len(Eligible)

C18_Witness ==
    /\ pc = "done"
    /\ ~Falsy(folder_id)
    /\ Len(drive_created) = 2
    /\ Len(photos_items) = 2
    /\ calls["drive_create"] = 2

\* the other run wrote token.json after this run's get_google_service call
\* inside get_google_token returned and before this run read the file back
WrittenInBetween == other.stage = "written" /\ other.at = "token_read"

\* C19: the bearer token get_google_token reads back from token.json is the
\* token of the credentials its own get_google_service call just persisted,
\* unless a concurrent run wrote the file in between (nothing locks it); in
\* particular it always is in a single run.
C19_ReadBackOwnTokenUnlessRaced ==
    (token # <<>> /\ ~WrittenInBetween) => token[1] = token_service[1].token

\* the race: this run continues with the other run's token
C19_Witness ==
    /\ token # <<>>
    /\ token[1] # token_service[1].token
    /\ token[1] = other.creds[1].token
    /\ WrittenInBetween

=============================================================================
